---------------------------- MODULE Spec2Model ----------------------------
(***************************************************************************)
(* A model of teapod's interactive session (src/src/main.rs): the render / *)
(* key-event loop of main, the podcast collection it keeps in memory, the  *)
(* per-podcast directories it writes under the data directory, and the     *)
(* single rodio sink it plays audio through.                                *)
(*                                                                         *)
(* Values of type Option<T> are sequences of length at most one: <<>> is   *)
(* None and <<x>> is Some(x).  A String is a sequence of one-character     *)
(* strings where the code looks inside it (episode titles, whose extension *)
(* Path::with_extension replaces) and a TLA+ string elsewhere.             *)
(*                                                                         *)
(* Not modelled: the scroll offsets and ScrollbarStates of the lists and   *)
(* of the two info popups (written by draw and by j/k, read by the         *)
(* renderer only), the layout, and the text of descriptions and dates      *)
(* beyond carrying them in the records.                                    *)
(***************************************************************************)
EXTENDS Integers, Sequences, FiniteSets, TLC

VARIABLES
    pc,                 \* where main is: "draw", "read", "play_assign", or how it ended: "Ok", "Err", "panic"
    terminal,           \* "cooked" | "raw": the mode ratatui::init / ratatui::restore leave the terminal in
    current_view,       \* View
    podcasts,           \* Vec<Podcast>
    podcast_list_state, \* ListState.selected : Option<usize>
    episode_list_state, \* TableState.selected : Option<usize>
    url_to_add,         \* String
    player_title,       \* String
    player_sink,        \* Option<Sink>
    new_sink,           \* the Sink rodio::play returned, before it is assigned to player_sink
    mixer,              \* the sources the output stream's mixer is playing, oldest first
    disk,               \* the data directory: one sub-directory per podcast title
    podcast_text,       \* the feed document handed to parse_podcast_data
    parsed,             \* what parse_podcast_data returned for it
    podcast_info_popup, \* a PodcastInfoPopupState
    episode_info_popup, \* an EpisodeInfoPopupState
    popup_call,         \* the method last called on the two popup states (observation only)
    last                \* what the handler of the last event did (observation only)

vars == <<pc, terminal, current_view, podcasts, podcast_list_state,
          episode_list_state, url_to_add, player_title, player_sink,
          new_sink, mixer, disk, podcast_text, parsed,
          podcast_info_popup, episode_info_popup, popup_call, last>>

-----------------------------------------------------------------------------
(* Option<T> *)
None == <<>>
Some(x) == <<x>>
IsSome(o) == o # <<>>

(* usize::MAX.  TLC's integers are 32 bits wide; the model uses of the     *)
(* value only that it is at least every length and that saturating_add     *)
(* stops at it.                                                             *)
UsizeMax == (1073741823 * 2) + 1

saturating_add(i) == IF i = UsizeMax THEN UsizeMax ELSE i + 1
saturating_sub(i) == IF i = 0 THEN 0 ELSE i - 1

(* ratatui's ListState / TableState selection moves *)
select_first == Some(0)
select_next(sel) == IF sel = None THEN Some(0) ELSE Some(saturating_add(sel[1]))
select_previous(sel) == IF sel = None THEN Some(UsizeMax) ELSE Some(saturating_sub(sel[1]))

(* u16 *)
U16Max == 65535
u16_saturating_add(i) == IF i = U16Max THEN U16Max ELSE i + 1
u16_saturating_sub(i) == IF i = 0 THEN 0 ELSE i - 1

(* ratatui's ScrollbarState: Default, content_length(n), first, prev, next *)
ScrollbarDefault == [content_length |-> 0, position |-> 0]
content_length(s, n) == [s EXCEPT !.content_length = n]
min(a, b) == IF a <= b THEN a ELSE b
scrollbar_first(s) == [s EXCEPT !.position = 0]
scrollbar_prev(s) == [s EXCEPT !.position = saturating_sub(s.position)]
scrollbar_next(s) ==
    [s EXCEPT !.position = min(saturating_add(s.position), saturating_sub(s.content_length))]

(* #[derive(Default)] of PodcastInfoPopupState and EpisodeInfoPopupState *)
PopupStateDefault == [scroll_offset |-> 0, scroll_state |-> ScrollbarDefault]

-----------------------------------------------------------------------------
(* The world outside the program: what the clipboard and the network can   *)
(* hand to it.                                                              *)

Views == {"PodcastList", "PodcastInfo", "AddPodcast", "EpisodeList", "EpisodeInfo"}

Keys == {"q", "a", "u", "space", "Enter", "k", "j", "i", "Esc", "p", "other"}

(* How many distinct feed URLs the user can paste. *)
MaxUrls == 2

UrlNames == <<"u1", "u2", "u3", "u4">>

Urls == {UrlNames[i] : i \in 1..MaxUrls}

(* The texts the clipboard can hold: a feed URL, or no URL at all. *)
ClipboardTexts == Urls \cup {""}

(* The type attribute of the enclosure an audio URL comes from.  The feed  *)
(* states it; parse_podcast_data reads the enclosure's url attribute only.*)
enclosure_type(audio_url) == IF audio_url = "m2" THEN "audio/ogg" ELSE "audio/mpeg"

Episode(t, d, date, a) == [title |-> t, description |-> d, date |-> date, audio_url |-> a]

ep1 == Episode(<<"E", ".", "1">>, "first", "2024-01-01", "m1")
ep2 == Episode(<<"E", ".", "2">>, "", "2024-01-08", "m2")

(* What parse_podcast_data can return for the text a feed URL serves; the  *)
(* url field is the URL asked.  Any feed may serve any of these at any time.*)
Fixtures ==
    { [title |-> "T1", description |-> "d1", episodes |-> <<ep1, ep2>>],
      [title |-> "T2", description |-> "", episodes |-> <<>>] }

Podcast(url, x) ==
    [title |-> x.title, description |-> x.description, url |-> url, episodes |-> x.episodes]

Titles == {x.title : x \in Fixtures}

-----------------------------------------------------------------------------
(* Paths.  data_path.join(podcast.title) is the directory named by the     *)
(* title; join(episode.title).with_extension("mp3") replaces what follows  *)
(* the last '.' of the episode title (unless the title has no '.' or only  *)
(* a leading one) by "mp3".                                                 *)

LastDot(t) ==
    LET dots == {i \in 1..Len(t) : t[i] = "."}
    IN IF dots = {} THEN 0 ELSE CHOOSE i \in dots : \A j \in dots : j <= i

file_stem(t) == IF LastDot(t) <= 1 THEN t ELSE SubSeq(t, 1, LastDot(t) - 1)

with_extension_mp3(t) == file_stem(t) \o <<".", "m", "p", "3">>

AllEpisodes == UNION {{x.episodes[i] : i \in 1..Len(x.episodes)} : x \in Fixtures}
AudioFiles == {with_extension_mp3(e.title) : e \in AllEpisodes}

NoFeedFile == [state |-> "absent", podcast |-> Podcast("", [title |-> "", description |-> "", episodes |-> <<>>])]
NoAudioFile == [state |-> "absent", src |-> ""]
NoDir == [exists |-> FALSE, feed |-> NoFeedFile, audio |-> [f \in AudioFiles |-> NoAudioFile]]
EmptyDir == [NoDir EXCEPT !.exists = TRUE]

(* Path::exists of data_path/title/file *)
audio_path_exists(dsk, title, file) ==
    dsk[title].exists /\ dsk[title].audio[file].state # "absent"

-----------------------------------------------------------------------------
(* Feed documents and parse_podcast_data.  A document is the text a feed   *)
(* URL serves: text roxmltree rejects, or a tree in which the first        *)
(* element named channel, if there is one, has a sequence of element       *)
(* children.  An element has a tag name, an optional text, optional url    *)
(* and type attributes and, for an item, element children of its own.      *)

Elem(tag, text) ==
    [tag |-> tag, text |-> text, url |-> None, type |-> None, children |-> <<>>]
EnclosureOfType(url, type) ==
    [tag |-> "enclosure", text |-> None, url |-> url, type |-> type, children |-> <<>>]
Enclosure(url) == EnclosureOfType(url, Some(enclosure_type(url[1])))
Item(children) ==
    [tag |-> "item", text |-> None, url |-> None, type |-> None, children |-> children]

(* The longest sequence of children a channel of the model has. *)
MaxChildren == 5

Date1 == "Mon, 01 Jan 2024 10:00:00 +0000"
Date2 == "Mon, 08 Jan 2024 10:00:00 +0000"

ItemA ==
    Item(<<Elem("title", Some(<<"E", ".", "1">>)), Elem("description", Some("first")),
           Elem("pubDate", Some(Date1)), Enclosure(Some("m1"))>>)
ItemB ==
    Item(<<Elem("guid", Some("g2")), Enclosure(Some("m2")), Elem("pubDate", Some(Date2)),
           Elem("description", None), Elem("title", Some(<<"E", ".", "2">>))>>)
ItemNoEnclosure ==
    Item(<<Elem("title", Some(<<"E", ".", "3">>)), Elem("description", Some("third")),
           Elem("pubDate", Some(Date1))>>)

ChannelChildren ==
    { Elem("title", Some("T1")), Elem("title", None),
      Elem("description", Some("d1")), Elem("description", None),
      Elem("link", Some("home")),
      ItemA, ItemB, ItemNoEnclosure }

Doc(well_formed, channel) == [well_formed |-> well_formed, channel |-> channel]

NoText == Doc(FALSE, None)

Docs ==
    {NoText, Doc(TRUE, None)} \cup
    {Doc(TRUE, Some(c)) : c \in UNION {[1..n -> ChannelChildren] : n \in 0..MaxChildren}}

(* The longest sequence of children an item of ItemDocs has. *)
MaxItemChildren == 4

(* A pubDate text that is no RFC 2822 date-time. *)
NoDate == "yesterday"

ItemChildren ==
    { Elem("title", Some(<<"E", ".", "3">>)), Elem("title", None),
      Elem("description", Some("third")), Elem("description", None),
      Elem("pubDate", Some(Date1)), Elem("pubDate", Some(NoDate)),
      Enclosure(Some("m1")), EnclosureOfType(Some("m1"), None),
      EnclosureOfType(None, Some("audio/mpeg")) }

Items == {Item(c) : c \in UNION {[1..n -> ItemChildren] : n \in 0..MaxItemChildren}}

(* A channel that is in order, with ItemA and one more item, any of Items. *)
ItemDocs ==
    { Doc(TRUE, Some(<<Elem("title", Some("T1")), ItemA, item,
                       Elem("description", Some("d1"))>>)) : item \in Items }

(* node.has_tag_name(tag) *)
has_tag_name(node, tag) == node.tag = tag

(* children().find(|node| node.has_tag_name(tag)): the first such child *)
find(children, tag) ==
    LET at == {i \in 1..Len(children) : has_tag_name(children[i], tag)}
    IN IF at = {} THEN None ELSE Some(children[CHOOSE i \in at : \A j \in at : i <= j])

(* A filter that lets every child through. *)
filter_all(children, tag) == children

(* children().filter(|node| node.has_tag_name(tag)), in document order *)
filter(children, tag) == SelectSeq(children, LAMBDA node : has_tag_name(node, tag))

(* Option::unwrap_or_default on an Option<&str> *)
unwrap_or_default(text) == IF IsSome(text) THEN text[1] ELSE ""

(* DateTime::parse_from_rfc2822(text).unwrap_or_default().date_naive().to_string() *)
date_naive(text) ==
    CASE text = Date1 -> "2024-01-01"
      [] text = Date2 -> "2024-01-08"
      [] OTHER -> "1970-01-01"

(* find(tag).unwrap().text().unwrap() does not panic *)
has_text(children, tag) == IsSome(find(children, tag)) /\ IsSome(find(children, tag)[1].text)

(* The closure of .map() runs to its end for the item: no unwrap panics. *)
item_parses(item) ==
    /\ has_text(item.children, "title")
    /\ IsSome(find(item.children, "description"))
    /\ IsSome(find(item.children, "pubDate"))
    /\ IsSome(find(item.children, "enclosure"))
    /\ IsSome(find(item.children, "enclosure")[1].url)

(* The Episode the closure of .map() builds from an item. *)
parse_item(item) ==
    Episode(find(item.children, "title")[1].text[1],
            unwrap_or_default(find(item.children, "description")[1].text),
            date_naive(unwrap_or_default(find(item.children, "pubDate")[1].text)),
            find(item.children, "enclosure")[1].url[1])

NotParsed == [result |-> "none", podcast |-> NoFeedFile.podcast]
ParseFailed(result) == [result |-> result, podcast |-> NoFeedFile.podcast]

parse_podcast_data(url, text) ==
    IF ~text.well_formed THEN ParseFailed("Err")
    ELSE IF text.channel = None THEN ParseFailed("panic")
    ELSE LET channel == text.channel[1]
             items == filter(channel, "item")
         IN IF /\ has_text(channel, "title")
               /\ IsSome(find(channel, "description"))
               /\ \A i \in 1..Len(items) : item_parses(items[i])
            THEN [result |-> "ok",
                  podcast |-> [title |-> find(channel, "title")[1].text[1],
                               description |-> unwrap_or_default(find(channel, "description")[1].text),
                               url |-> url,
                               episodes |-> [i \in 1..Len(items) |-> parse_item(items[i])]]]
            ELSE ParseFailed("panic")

-----------------------------------------------------------------------------
(* What the handler of one event did: the key and the view it was pressed  *)
(* in, how the handler ended ("ok": it ran to its end; "Err": it returned  *)
(* an error through `?`; "panic"), the feed URLs it requested, the audio   *)
(* URLs it requested, whether it dropped a sink that was playing, and the  *)
(* podcasts parse_podcast_data returned to a refresh.                      *)
NoEvent == [key |-> "none", view |-> "PodcastList", result |-> "ok",
            fetched |-> <<>>, downloads |-> <<>>, replaced |-> FALSE, got |-> <<>>]

Event(key, result, fetched, downloads) ==
    [key |-> key, view |-> current_view, result |-> result,
     fetched |-> fetched, downloads |-> downloads, replaced |-> FALSE, got |-> <<>>]

Handled(key) == Event(key, "ok", <<>>, <<>>)

Init ==
    /\ pc = "draw"
    /\ terminal = "raw"
    /\ current_view = "PodcastList"
    /\ podcasts = <<>>
    /\ podcast_list_state = None
    /\ episode_list_state = None
    /\ url_to_add = ""
    /\ player_title = <<>>
    /\ player_sink = None
    /\ new_sink = None
    /\ mixer = <<>>
    /\ disk = [t \in Titles |-> NoDir]
    /\ podcast_text = NoText
    /\ parsed = NotParsed
    /\ podcast_info_popup = PopupStateDefault
    /\ episode_info_popup = PopupStateDefault
    /\ popup_call = "none"
    /\ last = NoEvent

uiVars == <<current_view, podcast_list_state, episode_list_state, url_to_add>>
playVars == <<player_title, player_sink, new_sink, mixer>>
parseVars == <<podcast_text, parsed>>
popupVars == <<podcast_info_popup, episode_info_popup, popup_call>>

-----------------------------------------------------------------------------
(* terminal.draw: the List and Table widgets bring the two selections back *)
(* into range as they render (ratatui: an empty list deselects, a selection*)
(* past the end moves to the last item).                                    *)

render_list(len, sel) ==
    IF len = 0 THEN None
    ELSE IF IsSome(sel) /\ sel[1] >= len THEN Some(len - 1)
    ELSE sel

render_table(len, sel) ==
    LET clamped == IF IsSome(sel) /\ sel[1] >= len THEN Some(saturating_sub(len)) ELSE sel
    IN IF len = 0 THEN None ELSE clamped

drawn_episodes(pods, psel) == IF IsSome(psel) THEN pods[psel[1] + 1].episodes ELSE <<>>

Draw ==
    /\ pc = "draw"
    /\ LET psel == render_list(Len(podcasts), podcast_list_state)
       IN /\ podcast_list_state' = psel
          /\ episode_list_state' = render_table(Len(drawn_episodes(podcasts, psel)), episode_list_state)
    /\ pc' = "read"
    /\ last' = NoEvent
    /\ UNCHANGED <<terminal, current_view, podcasts, url_to_add, playVars, disk>>
    /\ UNCHANGED <<parseVars, popupVars>>

-----------------------------------------------------------------------------
(* How main ends when a handler returns an error through `?` (the terminal *)
(* stays as it is) or a value is unwrapped that is not there (the panic    *)
(* hook ratatui::init installed restores the terminal).  Either way main's *)
(* locals are dropped, the collection, the sink and the output stream with *)
(* them: a process that has ended has no memory, and the variables that    *)
(* stood for it go back to their empty values.  What outlives it is the    *)
(* terminal's mode and the data directory.                                 *)

terminal_after(result) == IF result \in {"Ok", "panic"} THEN "cooked" ELSE terminal

Ends(result) ==
    /\ pc' = result
    /\ terminal' = terminal_after(result)
    /\ podcasts' = <<>>
    /\ current_view' = "PodcastList"
    /\ podcast_list_state' = None
    /\ episode_list_state' = None
    /\ url_to_add' = ""
    /\ player_title' = <<>>
    /\ player_sink' = None
    /\ new_sink' = None
    /\ mixer' = <<>>

Continues ==
    /\ pc' = "draw"
    /\ UNCHANGED <<terminal, playVars>>

-----------------------------------------------------------------------------
(* KeyCode::Esc: the view each view's Esc arm assigns to current_view.  The *)
(* match arm of View::PodcastList has none: Esc falls to `_ => {}`.         *)

(* An Esc arm that leaves the view as it is. *)
escape_to_stays(view) == view

escape_to(view) ==
    CASE view = "PodcastInfo" -> "PodcastList"
      [] view = "AddPodcast"  -> "PodcastList"
      [] view = "EpisodeList" -> "PodcastList"
      [] view = "EpisodeInfo" -> "EpisodeList"
      [] OTHER -> view

-----------------------------------------------------------------------------
(* The keys every view shares (main.rs, the first match on key_event.code).*)
(* The match on current_view that follows has no arm for these keys in any *)
(* view, so the second match changes nothing.                               *)

KeyQ ==
    /\ pc = "read"
    /\ last' = Handled("q")
    /\ Ends("Ok")                      \* is_running = false; the loop ends; ratatui::restore(); Ok(())
    /\ UNCHANGED disk
    /\ UNCHANGED <<parseVars, popupVars>>

KeyA ==
    /\ pc = "read"
    /\ url_to_add' = ""
    /\ current_view' = "AddPodcast"
    /\ pc' = "draw"
    /\ last' = Handled("a")
    /\ UNCHANGED <<terminal, podcasts, podcast_list_state, episode_list_state, playVars, disk>>
    /\ UNCHANGED <<parseVars, popupVars>>

(* A space key that only ever pauses. *)
toggle_pause_pauses(sink) == [sink EXCEPT !.paused = TRUE]

(* sink.is_paused() / sink.play() / sink.pause() *)
toggle_pause(sink) == [sink EXCEPT !.paused = ~sink.paused]

KeySpace ==
    /\ pc = "read"
    /\ player_sink' = IF IsSome(player_sink) THEN Some(toggle_pause(player_sink[1])) ELSE player_sink
    /\ pc' = "draw"
    /\ last' = Handled("space")
    /\ UNCHANGED <<terminal, uiVars, podcasts, player_title, new_sink, mixer, disk>>
    /\ UNCHANGED <<parseVars, popupVars>>

-----------------------------------------------------------------------------
(* View::PodcastList *)

PodcastListEnter ==
    /\ pc = "read"
    /\ current_view = "PodcastList"
    /\ IF IsSome(podcast_list_state) /\ podcast_list_state[1] >= Len(podcasts)
       THEN \* podcasts[index] out of bounds
            /\ last' = Event("Enter", "panic", <<>>, <<>>)
            /\ Ends("panic")
       ELSE /\ episode_list_state' =
                  IF IsSome(podcast_list_state) /\ podcasts[podcast_list_state[1] + 1].episodes # <<>>
                  THEN select_first
                  ELSE episode_list_state
            /\ current_view' = "EpisodeList"
            /\ last' = Handled("Enter")
            /\ Continues
            /\ UNCHANGED <<podcasts, podcast_list_state, url_to_add>>
    /\ UNCHANGED disk
    /\ UNCHANGED <<parseVars, popupVars>>

PodcastListK ==
    /\ pc = "read"
    /\ current_view = "PodcastList"
    /\ podcast_list_state' = select_previous(podcast_list_state)
    /\ episode_list_state' = select_first
    /\ pc' = "draw"
    /\ last' = Handled("k")
    /\ UNCHANGED <<terminal, current_view, podcasts, url_to_add, playVars, disk>>
    /\ UNCHANGED <<parseVars, popupVars>>

PodcastListJ ==
    /\ pc = "read"
    /\ current_view = "PodcastList"
    /\ podcast_list_state' = select_next(podcast_list_state)
    /\ episode_list_state' = select_first
    /\ pc' = "draw"
    /\ last' = Handled("j")
    /\ UNCHANGED <<terminal, current_view, podcasts, url_to_add, playVars, disk>>
    /\ UNCHANGED <<parseVars, popupVars>>

PodcastListI ==
    /\ pc = "read"
    /\ current_view = "PodcastList"
    /\ current_view' = "PodcastInfo"
    /\ pc' = "draw"
    /\ last' = Handled("i")
    /\ UNCHANGED <<terminal, podcasts, podcast_list_state, episode_list_state, url_to_add, playVars, disk>>
    /\ UNCHANGED <<parseVars, popupVars>>

-----------------------------------------------------------------------------
(* View::PodcastInfo and View::EpisodeInfo.  k and j move the popup's      *)
(* scroll offset, which is not part of this model.                          *)

PodcastInfoEsc ==
    /\ pc = "read"
    /\ current_view = "PodcastInfo"
    /\ current_view' = escape_to(current_view)
    /\ pc' = "draw"
    /\ last' = Handled("Esc")
    /\ UNCHANGED <<terminal, podcasts, podcast_list_state, episode_list_state, url_to_add, playVars, disk>>
    /\ UNCHANGED <<parseVars, popupVars>>

PodcastInfoScroll ==
    /\ pc = "read"
    /\ current_view = "PodcastInfo"
    /\ \E key \in {"k", "j"} : last' = Handled(key)
    /\ pc' = "draw"
    /\ UNCHANGED <<terminal, uiVars, podcasts, playVars, disk>>
    /\ UNCHANGED <<parseVars, popupVars>>

EpisodeInfoEsc ==
    /\ pc = "read"
    /\ current_view = "EpisodeInfo"
    /\ current_view' = escape_to(current_view)
    /\ pc' = "draw"
    /\ last' = Handled("Esc")
    /\ UNCHANGED <<terminal, podcasts, podcast_list_state, episode_list_state, url_to_add, playVars, disk>>
    /\ UNCHANGED <<parseVars, popupVars>>

EpisodeInfoScroll ==
    /\ pc = "read"
    /\ current_view = "EpisodeInfo"
    /\ \E key \in {"k", "j"} : last' = Handled(key)
    /\ pc' = "draw"
    /\ UNCHANGED <<terminal, uiVars, podcasts, playVars, disk>>
    /\ UNCHANGED <<parseVars, popupVars>>

-----------------------------------------------------------------------------
(* View::EpisodeList, but Enter *)

EpisodeListEsc ==
    /\ pc = "read"
    /\ current_view = "EpisodeList"
    /\ current_view' = escape_to(current_view)
    /\ pc' = "draw"
    /\ last' = Handled("Esc")
    /\ UNCHANGED <<terminal, podcasts, podcast_list_state, episode_list_state, url_to_add, playVars, disk>>
    /\ UNCHANGED <<parseVars, popupVars>>

EpisodeListK ==
    /\ pc = "read"
    /\ current_view = "EpisodeList"
    /\ episode_list_state' = select_previous(episode_list_state)
    /\ pc' = "draw"
    /\ last' = Handled("k")
    /\ UNCHANGED <<terminal, current_view, podcasts, podcast_list_state, url_to_add, playVars, disk>>
    /\ UNCHANGED <<parseVars, popupVars>>

EpisodeListJ ==
    /\ pc = "read"
    /\ current_view = "EpisodeList"
    /\ episode_list_state' = select_next(episode_list_state)
    /\ pc' = "draw"
    /\ last' = Handled("j")
    /\ UNCHANGED <<terminal, current_view, podcasts, podcast_list_state, url_to_add, playVars, disk>>
    /\ UNCHANGED <<parseVars, popupVars>>

EpisodeListI ==
    /\ pc = "read"
    /\ current_view = "EpisodeList"
    /\ current_view' = "EpisodeInfo"
    /\ pc' = "draw"
    /\ last' = Handled("i")
    /\ UNCHANGED <<terminal, podcasts, podcast_list_state, episode_list_state, url_to_add, playVars, disk>>
    /\ UNCHANGED <<parseVars, popupVars>>

-----------------------------------------------------------------------------
(* The keys a view's match sends to its `_ => {}` arm, and every event     *)
(* that is no key press.                                                    *)

ViewKeys(view) ==
    CASE view = "PodcastList" -> {"Enter", "k", "j", "i"}
      [] view = "PodcastInfo" -> {"Esc", "k", "j"}
      [] view = "AddPodcast"  -> {"Esc", "p", "Enter"}
      [] view = "EpisodeList" -> {"Esc", "Enter", "k", "j", "i"}
      [] view = "EpisodeInfo" -> {"Esc", "k", "j"}

GlobalKeys == {"q", "a", "u", "space"}

KeyIgnored ==
    /\ pc = "read"
    /\ \E key \in Keys \ (GlobalKeys \cup ViewKeys(current_view)) : last' = Handled(key)
    /\ pc' = "draw"
    /\ UNCHANGED <<terminal, uiVars, podcasts, playVars, disk>>
    /\ UNCHANGED <<parseVars, popupVars>>

-----------------------------------------------------------------------------
(* Files.  tokio::fs::write creates or truncates the file and then writes  *)
(* the bytes: it can succeed, fail before it touched the file, or fail (or *)
(* be interrupted) after it wrote a part.  It does not create directories. *)

WriteResults == {"written", "untouched", "partial"}

FeedFile(podcast) == [state |-> "valid", podcast |-> podcast]
PartialFeedFile == [NoFeedFile EXCEPT !.state = "partial"]

(* A write that reports success and leaves the file as it was. *)
write_feed_lost(dsk, podcast, w) == [disk |-> dsk, ok |-> TRUE]

(* tokio::fs::write(data_path/podcast.title/feed.json, to_string_pretty(podcast)) *)
write_feed(dsk, podcast, w) ==
    IF ~dsk[podcast.title].exists \/ w = "untouched"
    THEN [disk |-> dsk, ok |-> FALSE]
    ELSE IF w = "partial"
    THEN [disk |-> [dsk EXCEPT ![podcast.title].feed = PartialFeedFile], ok |-> FALSE]
    ELSE [disk |-> [dsk EXCEPT ![podcast.title].feed = FeedFile(podcast)], ok |-> TRUE]

AudioFile(url) == [state |-> "complete", src |-> url]
PartialAudioFile(url) == [state |-> "partial", src |-> url]

(* tokio::fs::write(podcast_audio_path, bytes of audio_url) *)
write_audio(dsk, title, file, url, w) ==
    IF ~dsk[title].exists \/ w = "untouched"
    THEN [disk |-> dsk, ok |-> FALSE]
    ELSE IF w = "partial"
    THEN [disk |-> [dsk EXCEPT ![title].audio[file] = PartialAudioFile(url)], ok |-> FALSE]
    ELSE [disk |-> [dsk EXCEPT ![title].audio[file] = AudioFile(url)], ok |-> TRUE]

(* tokio::fs::create_dir(data_path/title): fails when the directory exists *)
create_dir(dsk, title, io_ok) ==
    IF dsk[title].exists \/ ~io_ok
    THEN [disk |-> dsk, ok |-> FALSE]
    ELSE [disk |-> [dsk EXCEPT ![title] = EmptyDir], ok |-> TRUE]

-----------------------------------------------------------------------------
(* reqwest::get(url).await?.text().await? followed by parse_podcast_data:  *)
(* the request or the XML parser returns an error, an unwrap in the parser *)
(* panics, or a podcast comes back.                                         *)
FetchResults == {[result |-> r, podcast |-> NoFeedFile.podcast] : r \in {"Err", "panic"}}
FetchOk(url) == {[result |-> "ok", podcast |-> Podcast(url, x)] : x \in Fixtures}
fetch_and_parse(url) == IF url \in Urls THEN FetchResults \cup FetchOk(url) ELSE {[result |-> "Err", podcast |-> NoFeedFile.podcast]}

-----------------------------------------------------------------------------
(* View::AddPodcast *)

AddPodcastEsc ==
    /\ pc = "read"
    /\ current_view = "AddPodcast"
    /\ current_view' = escape_to(current_view)
    /\ pc' = "draw"
    /\ last' = Handled("Esc")
    /\ UNCHANGED <<terminal, podcasts, podcast_list_state, episode_list_state, url_to_add, playVars, disk>>
    /\ UNCHANGED <<parseVars, popupVars>>

(* Clipboard::new()?.get_text()? *)
AddPodcastPaste ==
    /\ pc = "read"
    /\ current_view = "AddPodcast"
    /\ \/ \E text \in ClipboardTexts :
            /\ url_to_add' = text
            /\ last' = Handled("p")
            /\ Continues
            /\ UNCHANGED <<current_view, podcasts, podcast_list_state, episode_list_state>>
       \/ /\ last' = Event("p", "Err", <<>>, <<>>)
          /\ Ends("Err")
    /\ UNCHANGED disk
    /\ UNCHANGED <<parseVars, popupVars>>

(* reqwest::get sends a request only for a text that is a URL *)
requested(url) == IF url \in Urls THEN <<url>> ELSE <<>>

(* podcasts.iter().find(|podcast| podcast.url == url_to_add) *)
find_url(pods, url) == {i \in 1..Len(pods) : pods[i].url = url}

AddPodcastEnter ==
    /\ pc = "read"
    /\ current_view = "AddPodcast"
    /\ IF find_url(podcasts, url_to_add) # {}
       THEN \* Some(_) => { TODO: notify duplicate }
            /\ last' = Handled("Enter")
            /\ Continues
            /\ UNCHANGED <<uiVars, podcasts, disk>>
       ELSE \E f \in fetch_and_parse(url_to_add), io_ok \in BOOLEAN, w \in WriteResults :
            LET made == create_dir(disk, f.podcast.title, io_ok)
                wrote == write_feed(made.disk, f.podcast, w)
            IN IF f.result # "ok"
               THEN /\ last' = Event("Enter", f.result, requested(url_to_add), <<>>)
                    /\ Ends(f.result)
                    /\ UNCHANGED disk
               ELSE IF ~made.ok
               THEN /\ last' = Event("Enter", "Err", requested(url_to_add), <<>>)
                    /\ Ends("Err")
                    /\ UNCHANGED disk
               ELSE IF ~wrote.ok
               THEN /\ last' = Event("Enter", "Err", requested(url_to_add), <<>>)
                    /\ Ends("Err")
                    /\ disk' = wrote.disk
               ELSE /\ last' = Event("Enter", "ok", requested(url_to_add), <<>>)
                    /\ disk' = wrote.disk
                    /\ podcasts' = Append(podcasts, f.podcast)
                    /\ podcast_list_state' = select_next(podcast_list_state)
                    /\ current_view' = "PodcastList"
                    /\ Continues
                    /\ UNCHANGED <<episode_list_state, url_to_add>>
    /\ UNCHANGED <<parseVars, popupVars>>

-----------------------------------------------------------------------------
(* KeyCode::Char('u'): for podcast in podcasts.iter_mut() { fetch; parse;  *)
(* *podcast = parsed; write feed.json }, every step ending main on error.  *)
(* refresh_from(i, ...) is the set of ways the loop can go from the i-th   *)
(* podcast on.                                                              *)

(* A refresh that leaves the collection as it was. *)
RefreshEnd_keeps(result, pods, dsk, fetched, got) ==
    [result |-> result, podcasts |-> podcasts, disk |-> dsk, fetched |-> fetched, got |-> got]

RefreshEnd(result, pods, dsk, fetched, got) ==
    [result |-> result, podcasts |-> pods, disk |-> dsk, fetched |-> fetched, got |-> got]

RECURSIVE refresh_from(_, _, _, _, _)
refresh_from(i, pods, dsk, fetched, got) ==
    IF i > Len(pods)
    THEN {RefreshEnd("ok", pods, dsk, fetched, got)}
    ELSE LET asked == Append(fetched, pods[i].url)
         IN UNION { IF f.result # "ok"
                    THEN {RefreshEnd(f.result, pods, dsk, asked, got)}
                    ELSE UNION { LET replaced == [pods EXCEPT ![i] = f.podcast]
                                     wrote == write_feed(dsk, f.podcast, w)
                                     gotten == Append(got, f.podcast)
                                 IN IF wrote.ok
                                    THEN refresh_from(i + 1, replaced, wrote.disk, asked, gotten)
                                    ELSE {RefreshEnd("Err", replaced, wrote.disk, asked, gotten)}
                                 : w \in WriteResults }
                    : f \in fetch_and_parse(pods[i].url) }

KeyU ==
    /\ pc = "read"
    /\ \E r \in refresh_from(1, podcasts, disk, <<>>, <<>>) :
          /\ disk' = r.disk
          /\ last' = [Event("u", r.result, r.fetched, <<>>) EXCEPT !.got = r.got]
          /\ IF r.result = "ok"
             THEN /\ podcasts' = r.podcasts
                  /\ Continues
                  /\ UNCHANGED uiVars
             ELSE Ends(r.result)
    /\ UNCHANGED <<parseVars, popupVars>>

-----------------------------------------------------------------------------
(* View::EpisodeList, Enter: play the selected episode.                    *)

Sink(file) == [source |-> file, paused |-> FALSE]

(* rodio::play(mixer, audio): the new sink's source is added to the mixer  *)
(* and starts playing.                                                      *)
mixer_add(mx, sink) == Append(mx, sink.source)

(* A sink that is detached, or forgotten, instead of dropped keeps playing. *)
drop_sink_detached(mx, sink) == mx

(* Dropping a Sink stops its source: the mixer plays it no longer. *)
drop_sink(mx, sink) ==
    LET at == {i \in 1..Len(mx) : mx[i] = sink.source}
        first == CHOOSE i \in at : \A j \in at : i <= j
    IN IF at = {} THEN mx ELSE SubSeq(mx, 1, first - 1) \o SubSeq(mx, first + 1, Len(mx))

drop_option_sink(mx, sink) == IF IsSome(sink) THEN drop_sink(mx, sink[1]) ELSE mx

(* A play that downloads without looking at the cache. *)
must_download_always(dsk, title, file) == TRUE

(* if !podcast_audio_path.exists() { download; write } *)
must_download(dsk, title, file) == ~audio_path_exists(dsk, title, file)

(* The indexing of lines 412-413 is in bounds. *)
selection_in_bounds(pods, psel, esel) ==
    /\ IsSome(psel) /\ psel[1] < Len(pods)
    /\ IsSome(esel) /\ esel[1] < Len(pods[psel[1] + 1].episodes)

selected_episode(pods, psel, esel) == pods[psel[1] + 1].episodes[esel[1] + 1]

EpisodeListEnter ==
    /\ pc = "read"
    /\ current_view = "EpisodeList"
    /\ IF episode_list_state = None
       THEN /\ last' = Handled("Enter")
            /\ Continues
            /\ UNCHANGED <<uiVars, podcasts, disk>>
       ELSE IF ~selection_in_bounds(podcasts, podcast_list_state, episode_list_state)
       THEN /\ last' = Event("Enter", "panic", <<>>, <<>>)
            /\ Ends("panic")
            /\ UNCHANGED disk
       ELSE LET title == podcasts[podcast_list_state[1] + 1].title
                episode == selected_episode(podcasts, podcast_list_state, episode_list_state)
                file == with_extension_mp3(episode.title)
            IN IF must_download(disk, title, file)
               THEN \/ /\ last' = Event("Enter", "Err", <<>>, <<episode.audio_url>>)
                       /\ Ends("Err")
                       /\ UNCHANGED disk
                    \/ \E w \in WriteResults, decodes \in BOOLEAN :
                         LET wrote == write_audio(disk, title, file, episode.audio_url, w)
                         IN /\ disk' = wrote.disk
                            /\ IF wrote.ok /\ decodes
                               THEN /\ last' = Event("Enter", "ok", <<>>, <<episode.audio_url>>)
                                    /\ new_sink' = Some(Sink(wrote.disk[title].audio[file]))
                                    /\ mixer' = mixer_add(mixer, Sink(wrote.disk[title].audio[file]))
                                    /\ pc' = "play_assign"
                                    /\ UNCHANGED <<terminal, player_title, player_sink, uiVars, podcasts>>
                               ELSE /\ last' = Event("Enter", "Err", <<>>, <<episode.audio_url>>)
                                    /\ Ends("Err")
               ELSE \E decodes \in BOOLEAN :
                         /\ UNCHANGED disk
                         /\ IF decodes
                            THEN /\ last' = Handled("Enter")
                                 /\ new_sink' = Some(Sink(disk[title].audio[file]))
                                 /\ mixer' = mixer_add(mixer, Sink(disk[title].audio[file]))
                                 /\ pc' = "play_assign"
                                 /\ UNCHANGED <<terminal, player_title, player_sink, uiVars, podcasts>>
                            ELSE /\ last' = Event("Enter", "Err", <<>>, <<>>)
                                 /\ Ends("Err")
    /\ UNCHANGED <<parseVars, popupVars>>

(* player_sink = Some(<the sink rodio::play returned>): the assignment     *)
(* drops the Option<Sink> the variable held; then player_title is set.     *)
PlayAssign ==
    /\ pc = "play_assign"
    /\ player_sink' = new_sink
    /\ mixer' = drop_option_sink(mixer, player_sink)
    /\ new_sink' = None
    /\ player_title' = selected_episode(podcasts, podcast_list_state, episode_list_state).title
    /\ pc' = "draw"
    /\ last' = [last EXCEPT !.replaced = IsSome(player_sink)]
    /\ UNCHANGED <<terminal, uiVars, podcasts, disk>>
    /\ UNCHANGED <<parseVars, popupVars>>

-----------------------------------------------------------------------------
(* main, from its first line to the loop: run again after it has ended.    *)
(* read_dir lists the podcast directories in an order of its own.          *)

Orders(S) == {o \in [1..Cardinality(S) -> S] : \A i, j \in 1..Cardinality(S) : o[i] = o[j] => i = j}

Dirs(dsk) == {t \in Titles : dsk[t].exists}

(* entry.path().join("feed.json").exists() *)
feed_exists(dsk, t) == dsk[t].feed.state # "absent"

RECURSIVE load_podcasts(_, _, _)
load_podcasts(dsk, order, i) ==
    IF i > Len(order) THEN <<>>
    ELSE (IF feed_exists(dsk, order[i]) THEN <<dsk[order[i]].feed.podcast>> ELSE <<>>)
         \o load_podcasts(dsk, order, i + 1)

(* serde_json::from_str fails on a feed.json that was written in part *)
loadable(dsk) == \A t \in Dirs(dsk) : dsk[t].feed.state # "partial"

initial_episode_selection(pods) ==
    IF pods # <<>> /\ pods[1].episodes # <<>> THEN select_first ELSE None

Main ==
    /\ pc \in {"Ok", "Err", "panic"}
    /\ \E order \in Orders(Dirs(disk)), read_ok \in BOOLEAN, stream_ok \in BOOLEAN :
         LET loaded == IF loadable(disk) /\ read_ok /\ stream_ok
                       THEN load_podcasts(disk, order, 1) ELSE <<>>
         IN /\ podcasts' = loaded
            /\ podcast_list_state' = IF loaded # <<>> THEN select_first ELSE None
            /\ episode_list_state' = initial_episode_selection(loaded)
            /\ IF ~(loadable(disk) /\ read_ok)
               THEN /\ pc' = "Err"
                    /\ UNCHANGED terminal
               ELSE /\ terminal' = "raw"
                    /\ pc' = IF stream_ok THEN "draw" ELSE "Err"
    /\ current_view' = "PodcastList"
    /\ url_to_add' = ""
    /\ player_title' = <<>>
    /\ player_sink' = None
    /\ new_sink' = None
    /\ mixer' = <<>>
    /\ last' = NoEvent
    /\ UNCHANGED disk
    /\ UNCHANGED <<parseVars, popupVars>>

Next ==
    \/ Draw
    \/ Main
    \/ EpisodeListEnter \/ PlayAssign
    \/ KeyU
    \/ AddPodcastEsc \/ AddPodcastPaste \/ AddPodcastEnter
    \/ KeyQ \/ KeyA \/ KeySpace
    \/ PodcastListEnter \/ PodcastListK \/ PodcastListJ \/ PodcastListI
    \/ PodcastInfoEsc \/ PodcastInfoScroll
    \/ EpisodeListEsc \/ EpisodeListK \/ EpisodeListJ \/ EpisodeListI
    \/ EpisodeInfoEsc \/ EpisodeInfoScroll
    \/ KeyIgnored

Spec == Init /\ [][Next]_vars

-----------------------------------------------------------------------------
(* The session in a terminal too small for the two lists: with the header, *)
(* the player and the footer taking six rows, a terminal of at most eight  *)
(* rows leaves the bordered list and table no inner area, and the List and *)
(* Table widgets return before they look at their state, so that no        *)
(* selection is brought back into range.  The session starts as main does  *)
(* over a data directory that earlier runs wrote; no feed is added or      *)
(* refreshed.                                                               *)

(* The greatest selection but usize::MAX the keys j and k are followed to. *)
MaxSelected == 3

Collections ==
    { <<>>,
      <<Podcast("u1", [title |-> "T1", description |-> "d1", episodes |-> <<ep1, ep2>>])>>,
      <<Podcast("u1", [title |-> "T1", description |-> "d1", episodes |-> <<ep1, ep2>>]),
        Podcast("u2", [title |-> "T2", description |-> "", episodes |-> <<>>])>> }

(* The data directory that holds the collection. *)
disk_of(pods) ==
    [t \in Titles |->
        IF \E i \in 1..Len(pods) : pods[i].title = t
        THEN [EmptyDir EXCEPT !.feed =
                 FeedFile(pods[CHOOSE i \in 1..Len(pods) : pods[i].title = t])]
        ELSE NoDir]

NarrowInit ==
    /\ pc = "draw"
    /\ terminal = "raw"
    /\ current_view = "PodcastList"
    /\ podcasts \in Collections
    /\ podcast_list_state = IF podcasts # <<>> THEN select_first ELSE None
    /\ episode_list_state = initial_episode_selection(podcasts)
    /\ url_to_add = ""
    /\ player_title = <<>>
    /\ player_sink = None
    /\ new_sink = None
    /\ mixer = <<>>
    /\ disk = disk_of(podcasts)
    /\ podcast_text = NoText
    /\ parsed = NotParsed
    /\ podcast_info_popup = PopupStateDefault
    /\ episode_info_popup = PopupStateDefault
    /\ popup_call = "none"
    /\ last = NoEvent

(* What terminal.draw indexes: podcasts[index] for the episodes slice and  *)
(* the popups, and podcast.episodes[episode_index] for the episode popup.  *)
draw_in_bounds(pods, psel, esel, view) ==
    /\ IsSome(psel) => psel[1] < Len(pods)
    /\ (view = "EpisodeInfo" /\ IsSome(psel) /\ IsSome(esel))
          => esel[1] < Len(pods[psel[1] + 1].episodes)

DrawNarrow ==
    /\ pc = "draw"
    /\ IF draw_in_bounds(podcasts, podcast_list_state, episode_list_state, current_view)
       THEN /\ pc' = "read"
            /\ last' = NoEvent
            /\ UNCHANGED <<terminal, uiVars, podcasts, playVars>>
       ELSE /\ last' = [NoEvent EXCEPT !.result = "panic"]
            /\ Ends("panic")
    /\ UNCHANGED <<disk, parseVars, popupVars>>

Followed(sel) == sel[1] \in (0..MaxSelected) \cup {UsizeMax}

NarrowNext ==
    \/ DrawNarrow
    \/ PodcastListEnter
    \/ PodcastListK /\ Followed(podcast_list_state')
    \/ PodcastListJ /\ Followed(podcast_list_state')
    \/ PodcastListI
    \/ PodcastInfoEsc
    \/ EpisodeListEsc
    \/ EpisodeListK /\ Followed(episode_list_state')
    \/ EpisodeListJ /\ Followed(episode_list_state')
    \/ EpisodeListI
    \/ EpisodeInfoEsc
    \/ EpisodeListEnter
    \/ PlayAssign

NarrowSpec == NarrowInit /\ [][NarrowNext]_vars

-----------------------------------------------------------------------------
(* parse_podcast_data on its own: the session is where Init leaves it, the *)
(* document is any of Docs and the URL any of Urls.                         *)

sessionVars == <<pc, terminal, uiVars, podcasts, playVars, disk, last>>

ParseInit ==
    /\ pc = "draw"
    /\ terminal = "raw"
    /\ current_view = "PodcastList"
    /\ podcasts = <<>>
    /\ podcast_list_state = None
    /\ episode_list_state = None
    /\ url_to_add = ""
    /\ player_title = <<>>
    /\ player_sink = None
    /\ new_sink = None
    /\ mixer = <<>>
    /\ disk = [t \in Titles |-> NoDir]
    /\ last = NoEvent
    /\ podcast_text \in Docs \cup ItemDocs
    /\ parsed = NotParsed
    /\ podcast_info_popup = PopupStateDefault
    /\ episode_info_popup = PopupStateDefault
    /\ popup_call = "none"

ParseFeed ==
    /\ parsed = NotParsed
    /\ \E url \in Urls : parsed' = parse_podcast_data(url, podcast_text)
    /\ UNCHANGED <<podcast_text, sessionVars, popupVars>>

ParseNext == ParseFeed

ParseSpec == ParseInit /\ [][ParseNext]_vars

-----------------------------------------------------------------------------
(* The two info popups' states on their own (components/                   *)
(* podcast_info_popup.rs, components/episode_info_popup.rs): the same      *)
(* calls of first, prev and next are made on a PodcastInfoPopupState and   *)
(* on an EpisodeInfoPopupState, and a render gives both scrollbars the     *)
(* same content length.  The session is where Init leaves it.              *)

(* The most lines a popup's content has. *)
MaxLines == 3

(* How far from 0 and from u16::MAX the scroll offset is followed. *)
MaxScroll == 3

PodcastInfoPopupState_first(st) ==
    [scroll_offset |-> 0, scroll_state |-> scrollbar_first(st.scroll_state)]

PodcastInfoPopupState_prev(st) ==
    [scroll_offset |-> u16_saturating_sub(st.scroll_offset),
     scroll_state |-> scrollbar_next(st.scroll_state)]

PodcastInfoPopupState_next(st) ==
    [scroll_offset |-> u16_saturating_add(st.scroll_offset),
     scroll_state |-> scrollbar_next(st.scroll_state)]

EpisodeInfoPopupState_first(st) ==
    [scroll_offset |-> 0, scroll_state |-> scrollbar_first(st.scroll_state)]

EpisodeInfoPopupState_prev(st) ==
    [scroll_offset |-> u16_saturating_sub(st.scroll_offset),
     scroll_state |-> scrollbar_prev(st.scroll_state)]

EpisodeInfoPopupState_next(st) ==
    [scroll_offset |-> u16_saturating_add(st.scroll_offset),
     scroll_state |-> scrollbar_next(st.scroll_state)]

(* render: state.scroll_state = state.scroll_state.content_length(lines.len()) *)
popup_render(st, lines) ==
    [st EXCEPT !.scroll_state = content_length(st.scroll_state, lines)]

(* The state of a popup that has been scrolled down `calls` times since it *)
(* was made, and not rendered yet.                                          *)
scrolled_down(st, calls) ==
    IF calls = 0 THEN st
    ELSE [scroll_offset |-> IF st.scroll_offset + calls >= U16Max THEN U16Max
                            ELSE st.scroll_offset + calls,
          scroll_state |-> scrollbar_next(st.scroll_state)]

PopupInit ==
    /\ pc = "draw"
    /\ terminal = "raw"
    /\ current_view = "PodcastList"
    /\ podcasts = <<>>
    /\ podcast_list_state = None
    /\ episode_list_state = None
    /\ url_to_add = ""
    /\ player_title = <<>>
    /\ player_sink = None
    /\ new_sink = None
    /\ mixer = <<>>
    /\ disk = [t \in Titles |-> NoDir]
    /\ last = NoEvent
    /\ podcast_text = NoText
    /\ parsed = NotParsed
    /\ \E calls \in {0, U16Max - MaxScroll} :
         /\ podcast_info_popup = scrolled_down(PopupStateDefault, calls)
         /\ episode_info_popup = scrolled_down(PopupStateDefault, calls)
    /\ popup_call = "none"

PopupFirst ==
    /\ podcast_info_popup' = PodcastInfoPopupState_first(podcast_info_popup)
    /\ episode_info_popup' = EpisodeInfoPopupState_first(episode_info_popup)
    /\ popup_call' = "first"
    /\ UNCHANGED <<sessionVars, parseVars>>

PopupPrev ==
    /\ \/ podcast_info_popup.scroll_offset <= MaxScroll
       \/ podcast_info_popup.scroll_offset > U16Max - MaxScroll
    /\ podcast_info_popup' = PodcastInfoPopupState_prev(podcast_info_popup)
    /\ episode_info_popup' = EpisodeInfoPopupState_prev(episode_info_popup)
    /\ popup_call' = "prev"
    /\ UNCHANGED <<sessionVars, parseVars>>

PopupNextCall ==
    /\ \/ podcast_info_popup.scroll_offset < MaxScroll
       \/ podcast_info_popup.scroll_offset >= U16Max - MaxScroll
    /\ podcast_info_popup' = PodcastInfoPopupState_next(podcast_info_popup)
    /\ episode_info_popup' = EpisodeInfoPopupState_next(episode_info_popup)
    /\ popup_call' = "next"
    /\ UNCHANGED <<sessionVars, parseVars>>

PopupRender ==
    /\ \E lines \in 1..MaxLines :
         /\ podcast_info_popup' = popup_render(podcast_info_popup, lines)
         /\ episode_info_popup' = popup_render(episode_info_popup, lines)
    /\ popup_call' = "render"
    /\ UNCHANGED <<sessionVars, parseVars>>

PopupNext == PopupFirst \/ PopupPrev \/ PopupNextCall \/ PopupRender

PopupSpec == PopupInit /\ [][PopupNext]_vars

-----------------------------------------------------------------------------
(* The steps the properties below are about. *)

AddEnterStep ==
    pc = "read" /\ current_view = "AddPodcast" /\ last'.key = "Enter"

PlayRequestStep ==
    /\ pc = "read" /\ current_view = "EpisodeList" /\ last'.key = "Enter"
    /\ selection_in_bounds(podcasts, podcast_list_state, episode_list_state)

(* The step tells the user nothing: the handler ran to its end and nothing *)
(* of what the next draw paints has changed.                                *)
SilentStep ==
    /\ last'.result = "ok"
    /\ UNCHANGED <<terminal, uiVars, podcasts, playVars, disk>>

(* C1: Enter in the AddPodcast frame with the URL of a podcast of the      *)
(* collection is a reported rejection (not a silent no-op), requests no    *)
(* feed and leaves the length of the collection as it is.                  *)
C1_DuplicateAddIsReported ==
    [][ (AddEnterStep /\ find_url(podcasts, url_to_add) # {})
           => /\ ~SilentStep
              /\ last'.fetched = <<>>
              /\ Len(podcasts') = Len(podcasts) ]_vars

(* C2: no two podcasts of the collection have the same url. *)
C2_UrlsUnique ==
    \A i, j \in 1..Len(podcasts) : podcasts[i].url = podcasts[j].url => i = j

(* C3: a refresh requests the feed of every podcast of the collection,     *)
(* also when the fetch, parse or persist of one of them fails.             *)
C3_RefreshReachesEveryFeed ==
    [][ (pc = "read" /\ last'.key = "u")
           => last'.fetched = [i \in 1..Len(podcasts) |-> podcasts[i].url] ]_vars

(* C4: between two events, the mixer plays exactly the source of the sink  *)
(* in player_sink and nothing else; and when a play request has just       *)
(* succeeded, that sink is the fresh, unpaused sink over the cache file of *)
(* the episode just played, whose title player_title shows.                *)
C4_OneSession ==
    /\ pc \in {"draw", "read"} =>
          /\ new_sink = None
          /\ mixer = IF IsSome(player_sink) THEN <<player_sink[1].source>> ELSE <<>>
    /\ ( /\ pc = "draw" /\ last.key = "Enter" /\ last.view = "EpisodeList"
         /\ IsSome(episode_list_state) ) =>
          LET podcast == podcasts[podcast_list_state[1] + 1]
              episode == selected_episode(podcasts, podcast_list_state, episode_list_state)
          IN /\ player_sink = Some(Sink(disk[podcast.title].audio[with_extension_mp3(episode.title)]))
             /\ player_title = episode.title

(* C4 witness: a play request has succeeded while a session was active.    *)
C4_Witness ==
    /\ pc = "draw" /\ last.key = "Enter" /\ last.view = "EpisodeList"
    /\ last.replaced /\ IsSome(player_sink) /\ Len(mixer) = 1

(* C5: at no step of a play request are two sinks alive on the output.     *)
C5_NeverTwoSinks == Len(mixer) <= 1

(* C6: a play request whose cache file is absent requests exactly the      *)
(* episode's audio URL, once; one whose cache file exists requests nothing;*)
(* and after a play request that succeeded the cache file exists.          *)
C6_DownloadOnlyOnMiss ==
    [][ PlayRequestStep =>
          LET title == podcasts[podcast_list_state[1] + 1].title
              episode == selected_episode(podcasts, podcast_list_state, episode_list_state)
              file == with_extension_mp3(episode.title)
          IN /\ last'.downloads =
                   IF audio_path_exists(disk, title, file) THEN <<>> ELSE <<episode.audio_url>>
             /\ last'.result = "ok" => audio_path_exists(disk', title, file) ]_vars

(* C6 witness: a play request that found its cache file, written by an     *)
(* earlier one, and downloaded nothing.                                     *)
C6_Witness ==
    /\ pc = "play_assign" /\ last.key = "Enter" /\ last.downloads = <<>>
    /\ new_sink # None /\ new_sink[1].source.state = "complete"

(* C7: a cache path that exists holds the complete audio. *)
C7_CacheFilesComplete ==
    \A t \in Titles, f \in AudioFiles :
        audio_path_exists(disk, t, f) => disk[t].audio[f].state = "complete"

(* C8: an add that fails leaves the data directory as it was. *)
C8_FailedAddLeavesDisk ==
    [][ (AddEnterStep /\ last'.result # "ok") => disk' = disk ]_vars

(* C9: Enter in the podcast list with no podcast selected does not change  *)
(* the view.                                                                *)
C9_EnterNeedsSelection ==
    [][ ( /\ pc = "read" /\ current_view = "PodcastList" /\ last'.key = "Enter"
          /\ podcast_list_state = None ) => current_view' = current_view ]_vars

(* C10: PodcastInfo is active only with a podcast selected, EpisodeInfo    *)
(* only with a podcast and an episode selected.                             *)
C10_InfoNeedsSelection ==
    /\ current_view = "PodcastInfo" => IsSome(podcast_list_state)
    /\ current_view = "EpisodeInfo" => IsSome(podcast_list_state) /\ IsSome(episode_list_state)

(* How many frames lie over the root podcast list when the view is active. *)
Depth(view) ==
    CASE view = "PodcastList" -> 0
      [] view = "EpisodeInfo" -> 2
      [] OTHER -> 1

(* C11: Esc in a view other than the podcast list makes a shallower view   *)
(* the active one and the loop goes on; Esc in the podcast list changes    *)
(* nothing; and from every state two Esc presses are enough to be at the   *)
(* podcast list.                                                            *)
C11_EscapeLeavesFrame ==
    /\ [](escape_to(escape_to(current_view)) = "PodcastList")
    /\ [][ (pc = "read" /\ last'.key = "Esc") =>
             IF current_view = "PodcastList"
             THEN UNCHANGED <<terminal, uiVars, podcasts, playVars, disk>>
             ELSE /\ pc' = "draw"
                  /\ current_view' = escape_to(current_view)
                  /\ Depth(current_view') < Depth(current_view) ]_vars

(* C11 witness: Esc has closed the episode info popup, which lies two      *)
(* frames deep, and the episode list is the active view.                   *)
C11_Witness ==
    /\ pc = "draw" /\ last.key = "Esc" /\ last.view = "EpisodeInfo"
    /\ current_view = "EpisodeList"

(* A key opens a frame: `a`, `i`, or Enter in the podcast list, changing   *)
(* the view.                                                                *)
FrameOpens ==
    /\ pc = "read" /\ pc' = "draw"
    /\ current_view' # current_view
    /\ \/ last'.key \in {"a", "i"}
       \/ last'.key = "Enter" /\ current_view = "PodcastList"

(* C12: when a frame has been opened from view V, the Esc that closes it   *)
(* makes V the active view again.                                           *)
C12_StackDiscipline ==
    [][ FrameOpens => escape_to(current_view') = current_view ]_vars

(* C13: in PodcastInfo and EpisodeInfo the keys i, a and Enter leave the   *)
(* view and both selections as they are; in AddPodcast the key a leaves    *)
(* the view and the URL buffer as they are.                                 *)
C13_KeysScopedToFrame ==
    [][ /\ ( /\ pc = "read"
             /\ current_view \in {"PodcastInfo", "EpisodeInfo"}
             /\ last'.key \in {"i", "a", "Enter"} )
           => UNCHANGED <<current_view, podcast_list_state, episode_list_state>>
        /\ (pc = "read" /\ current_view = "AddPodcast" /\ last'.key = "a")
           => UNCHANGED <<current_view, url_to_add>> ]_vars

(* An error popup is the active view and the loop goes on. *)
ErrorShown == pc' = "draw" /\ current_view' = "ErrorInfo"

(* C14: Enter in AddPodcast with a URL of the collection, or whose fetch,  *)
(* parse or persist fails, makes an error popup the active view and the    *)
(* loop goes on.                                                            *)
C14_AddFailureShowsError ==
    [][ ( /\ AddEnterStep
          /\ find_url(podcasts, url_to_add) # {} \/ last'.result # "ok" )
           => ErrorShown ]_vars

(* C15: Enter in AddPodcast that succeeds for a URL not in the collection  *)
(* appends the podcast of that URL to the collection (the entries before   *)
(* it unchanged), its feed.json holds the podcast, and the podcast list is *)
(* the active view.                                                         *)
C15_AddAppends ==
    [][ ( /\ AddEnterStep
          /\ find_url(podcasts, url_to_add) = {}
          /\ last'.result = "ok" )
           => /\ Len(podcasts') = Len(podcasts) + 1
              /\ SubSeq(podcasts', 1, Len(podcasts)) = podcasts
              /\ podcasts'[Len(podcasts')].url = url_to_add
              /\ disk'[podcasts'[Len(podcasts')].title].feed = FeedFile(podcasts'[Len(podcasts')])
              /\ current_view' = "PodcastList"
              /\ pc' = "draw" ]_vars

(* C15 witness: a second podcast has been added after a first.             *)
C15_Witness ==
    /\ pc = "draw" /\ last.key = "Enter" /\ last.view = "AddPodcast"
    /\ last.result = "ok" /\ last.fetched # <<>>
    /\ Len(podcasts) = 2 /\ current_view = "PodcastList"

(* C16: p in AddPodcast with a clipboard that fails shows an error popup,  *)
(* the loop goes on and the URL buffer is as before.                        *)
C16_ClipboardFailureShowsError ==
    [][ ( /\ pc = "read" /\ current_view = "AddPodcast"
          /\ last'.key = "p" /\ last'.result # "ok" )
           => ErrorShown /\ url_to_add' = url_to_add ]_vars

(* C17: a play request that fails shows an error popup, the loop goes on   *)
(* and the session that was playing is as before.                           *)
C17_PlayFailureShowsError ==
    [][ (PlayRequestStep /\ last'.result # "ok")
           => ErrorShown /\ UNCHANGED <<player_sink, player_title, mixer>> ]_vars

(* C18: space with a session flips its paused flag and nothing else of it, *)
(* so that a second space gives the session back as it was; space without  *)
(* a session changes nothing; the view stays and the loop goes on.          *)
C18_SpaceToggles ==
    [][ (pc = "read" /\ last'.key = "space") =>
          /\ current_view' = current_view
          /\ pc' = "draw"
          /\ IF IsSome(player_sink)
             THEN /\ IsSome(player_sink')
                  /\ player_sink'[1].paused = ~player_sink[1].paused
                  /\ player_sink'[1].source = player_sink[1].source
                  /\ toggle_pause(player_sink'[1]) = player_sink[1]
                  /\ UNCHANGED <<terminal, uiVars, podcasts, player_title, new_sink, mixer, disk>>
             ELSE UNCHANGED <<terminal, uiVars, podcasts, playVars, disk>> ]_vars

(* C18 witness: space has resumed a session that an earlier space paused.  *)
C18_Witness ==
    /\ pc = "draw" /\ last.key = "space"
    /\ IsSome(player_sink) /\ ~player_sink[1].paused

(* C19: a play request for an episode whose enclosure is not audio/mpeg    *)
(* fails, requests nothing and writes nothing.                              *)
C19_OnlyMpegIsPlayed ==
    [][ ( /\ PlayRequestStep
          /\ enclosure_type(selected_episode(podcasts, podcast_list_state,
                                             episode_list_state).audio_url) # "audio/mpeg" )
           => /\ last'.result = "Err"
              /\ last'.downloads = <<>>
              /\ disk' = disk ]_vars

(* How many children of the element have the tag name. *)
Count(children, tag) == Cardinality({k \in 1..Len(children) : children[k].tag = tag})

(* An item with one title, that has text, one description, one pubDate,    *)
(* that holds an RFC 2822 date-time, and one enclosure, that has a url and *)
(* a type.                                                                  *)
WellFormedItem(item) ==
    /\ Count(item.children, "title") = 1
    /\ Count(item.children, "description") = 1
    /\ Count(item.children, "pubDate") = 1
    /\ Count(item.children, "enclosure") = 1
    /\ \A k \in 1..Len(item.children) :
          LET child == item.children[k]
          IN /\ child.tag = "title" => IsSome(child.text)
             /\ child.tag = "pubDate" => child.text \in {Some(Date1), Some(Date2)}
             /\ child.tag = "enclosure" => IsSome(child.url) /\ IsSome(child.type)

(* A document with a channel that has one title, with text, and one        *)
(* description, and whose items are all well-formed.                        *)
WellFormedFeed(text) ==
    /\ text.well_formed
    /\ IsSome(text.channel)
    /\ Cardinality({k \in 1..Len(text.channel[1]) : text.channel[1][k].tag = "title"}) = 1
    /\ \E k \in 1..Len(text.channel[1]) :
          text.channel[1][k].tag = "title" /\ IsSome(text.channel[1][k].text)
    /\ Cardinality({k \in 1..Len(text.channel[1]) : text.channel[1][k].tag = "description"}) = 1
    /\ \A k \in 1..Len(text.channel[1]) :
          text.channel[1][k].tag = "item" => WellFormedItem(text.channel[1][k])

(* The places of the items among a channel's children, and of the i-th.    *)
ItemPlaces(channel) == {k \in 1..Len(channel) : channel[k].tag = "item"}
NthItem(channel, i) ==
    channel[CHOOSE k \in ItemPlaces(channel) :
                Cardinality({q \in ItemPlaces(channel) : q <= k}) = i]

(* The episode the feed's author states with each well-formed item of the *)
(* model: ItemA, ItemB, or an item of Items, whose description has the     *)
(* text "third" or none.                                                    *)
StatedEpisode(item) ==
    IF item = ItemA THEN ep1
    ELSE IF item = ItemB THEN ep2
    ELSE Episode(<<"E", ".", "3">>,
                 IF \E k \in 1..Len(item.children) : item.children[k].text = Some("third")
                 THEN "third" ELSE "",
                 "2024-01-01", "m1")

(* C20: parsing a well-formed feed whose channel has N items gives a       *)
(* podcast of exactly N episodes, the i-th stating what the i-th item, in  *)
(* document order, states; children that are no items add no episode.      *)
C20_ItemsBecomeEpisodes ==
    (parsed # NotParsed /\ WellFormedFeed(podcast_text)) =>
        LET channel == podcast_text.channel[1]
            N == Cardinality(ItemPlaces(channel))
        IN /\ parsed.result = "ok"
           /\ Len(parsed.podcast.episodes) = N
           /\ \A i \in 1..N :
                 parsed.podcast.episodes[i] = StatedEpisode(NthItem(channel, i))

(* C20 witness: a feed of two items, the later one first, with a child     *)
(* that is no item after them, has been parsed.                             *)
C20_Witness ==
    /\ parsed.result = "ok"
    /\ parsed.podcast.episodes = <<ep2, ep1>>
    /\ podcast_text.channel[1][Len(podcast_text.channel[1])].tag = "link"

(* The items of a document that has a channel. *)
ItemsOf(text) == {text.channel[1][k] : k \in ItemPlaces(text.channel[1])}

(* The children of the element that have the tag name. *)
Children(element, tag) ==
    {element.children[k] : k \in {k \in 1..Len(element.children) : element.children[k].tag = tag}}

(* The item with its children of the tag name replaced by the one child. *)
Repaired(item, tag, child) ==
    Item(Append(SelectSeq(item.children, LAMBDA c : c.tag # tag), child))

(* The document has been parsed; it is XML with a channel that has one     *)
(* description and, unless the tag name is "title", one title, with text;  *)
(* and its items are well-formed but for their children of the tag name.   *)
ParsedInOrderBut(tag, child) ==
    /\ parsed # NotParsed
    /\ podcast_text.well_formed
    /\ IsSome(podcast_text.channel)
    /\ Count(podcast_text.channel[1], "description") = 1
    /\ tag # "title" =>
          /\ Count(podcast_text.channel[1], "title") = 1
          /\ \A k \in 1..Len(podcast_text.channel[1]) :
                podcast_text.channel[1][k].tag = "title" => IsSome(podcast_text.channel[1][k].text)
    /\ \A item \in ItemsOf(podcast_text) : WellFormedItem(Repaired(item, tag, child))

(* C21: parsing XML that has no channel element returns an error value: it *)
(* does not panic and returns no podcast.                                   *)
C21_MissingChannelIsError ==
    (parsed # NotParsed /\ podcast_text.well_formed /\ podcast_text.channel = None)
        => parsed.result = "Err"

(* C22: parsing a feed one of whose items has no enclosure, or an          *)
(* enclosure without url or without type, returns an error value.          *)
C22_MalformedEnclosureIsError ==
    ( /\ ParsedInOrderBut("enclosure", Enclosure(Some("m1")))
      /\ \E item \in ItemsOf(podcast_text) :
            \/ Children(item, "enclosure") = {}
            \/ \E e \in Children(item, "enclosure") : e.url = None \/ e.type = None )
        => parsed.result = "Err"

(* C23: parsing a feed whose channel, or one of whose items, has no title  *)
(* or a title without text returns an error value; and no podcast and no   *)
(* episode that parsing returns has an empty title.                         *)
C23_MissingTitleIsError ==
    /\ ( /\ ParsedInOrderBut("title", Elem("title", Some(<<"E">>)))
         /\ \/ \A k \in 1..Len(podcast_text.channel[1]) :
                  podcast_text.channel[1][k].tag = "title" => podcast_text.channel[1][k].text = None
            \/ \E item \in ItemsOf(podcast_text) :
                  \A t \in Children(item, "title") : t.text = None )
          => parsed.result = "Err"
    /\ parsed.result = "ok" =>
          /\ parsed.podcast.title # ""
          /\ \A i \in 1..Len(parsed.podcast.episodes) : parsed.podcast.episodes[i].title # <<>>

(* A feed that is well-formed but for the descriptions, of which the       *)
(* channel and each item have one or none.                                  *)
DescriptionsApart(text) ==
    /\ text.well_formed
    /\ IsSome(text.channel)
    /\ Count(text.channel[1], "title") = 1
    /\ \A k \in 1..Len(text.channel[1]) :
          text.channel[1][k].tag = "title" => IsSome(text.channel[1][k].text)
    /\ Count(text.channel[1], "description") <= 1
    /\ \A item \in ItemsOf(text) :
          /\ Count(item.children, "description") <= 1
          /\ \/ WellFormedItem(item)
             \/ WellFormedItem(Item(Append(item.children, Elem("description", None))))

(* The text of the one description among the children, or the empty string.*)
StatedDescription(children) ==
    IF \E k \in 1..Len(children) : children[k].tag = "description" /\ IsSome(children[k].text)
    THEN (CHOOSE c \in {children[k] : k \in 1..Len(children)} : c.tag = "description").text[1]
    ELSE ""

(* C24: parsing a feed that is well-formed but for descriptions it lacks   *)
(* succeeds; the description of the podcast, and of each episode, is the   *)
(* text of the description element it comes from, or empty without one.    *)
C24_DescriptionIsOptional ==
    (parsed # NotParsed /\ DescriptionsApart(podcast_text)) =>
        /\ parsed.result = "ok"
        /\ parsed.podcast.description = StatedDescription(podcast_text.channel[1])
        /\ Len(parsed.podcast.episodes) = Cardinality(ItemPlaces(podcast_text.channel[1]))
        /\ \A i \in 1..Len(parsed.podcast.episodes) :
              parsed.podcast.episodes[i].description =
                 StatedDescription(NthItem(podcast_text.channel[1], i).children)

(* C25: parsing a feed one of whose items has no pubDate returns an error  *)
(* value; and a feed with a pubDate that is no RFC 2822 date-time is       *)
(* either rejected with an error value or parsed with every item an        *)
(* episode.                                                                 *)
C25_MissingDateIsError ==
    /\ ( /\ ParsedInOrderBut("pubDate", Elem("pubDate", Some(Date1)))
         /\ \E item \in ItemsOf(podcast_text) : Children(item, "pubDate") = {} )
          => parsed.result = "Err"
    /\ ( /\ ParsedInOrderBut("pubDate", Elem("pubDate", Some(Date1)))
         /\ \E item \in ItemsOf(podcast_text) :
               \E d \in Children(item, "pubDate") : d.text = Some(NoDate) )
          => \/ parsed.result = "Err"
             \/ /\ parsed.result = "ok"
                /\ Len(parsed.podcast.episodes) = Cardinality(ItemPlaces(podcast_text.channel[1]))

(* C26: a refresh in which every feed succeeds leaves the collection as    *)
(* long as it was, each podcast with the url it had, and makes each        *)
(* podcast the one parsed from the text its url served, whole.             *)
C26_RefreshReplaces ==
    [][ (pc = "read" /\ last'.key = "u" /\ last'.result = "ok") =>
          /\ Len(podcasts') = Len(podcasts)
          /\ Len(last'.got) = Len(podcasts)
          /\ \A i \in 1..Len(podcasts) :
                /\ podcasts'[i].url = podcasts[i].url
                /\ podcasts'[i] = last'.got[i] ]_vars

(* C26 witness: a refresh has made the podcast that had two episodes one   *)
(* that has none, and the other way round.                                  *)
C26_Witness ==
    /\ pc = "draw" /\ last.key = "u" /\ last.result = "ok"
    /\ Len(podcasts) = 2
    /\ podcasts[1].url = "u1" /\ podcasts[1].episodes = <<>>
    /\ podcasts[2].url = "u2" /\ podcasts[2].episodes = <<ep1, ep2>>

(* C27: the Enter that sends an add's request gives the loop its turn back *)
(* with the add not yet resolved, so that draw steps come between request  *)
(* and outcome: at the end of that step the loop goes on and the view, the *)
(* collection and the data directory are as they were.                      *)
C27_LoopRunsDuringFetch ==
    [][ (AddEnterStep /\ last'.fetched # <<>>)
           => /\ pc' = "draw"
              /\ UNCHANGED <<current_view, podcasts, disk>> ]_vars

(* A draw step, or Enter in one of the two lists, has indexed the          *)
(* collection or an episode list out of bounds, or unwrapped a selection   *)
(* that is None.                                                            *)
IndexPanic ==
    /\ last.result = "panic"
    /\ \/ last.key = "none"
       \/ last.key = "Enter" /\ last.view \in {"PodcastList", "EpisodeList"}

(* C28: no key sequence makes a key handler or the draw step index the     *)
(* collection or an episode list out of bounds or unwrap an absent         *)
(* selection.                                                               *)
C28_NoIndexOutOfBounds == ~IndexPanic

(* The directories of the data directory that hold a feed.json. *)
FeedDirs == {t \in Dirs(disk) : feed_exists(disk, t)}

(* C29: whenever the loop runs, and so whenever the user can quit, the     *)
(* podcasts the next start would load from the data directory are exactly  *)
(* the podcasts of the collection, each once.                               *)
C29_PersistedIsMemory ==
    pc \in {"draw", "read"} =>
        /\ loadable(disk)
        /\ {disk[t].feed.podcast : t \in FeedDirs} = {podcasts[i] : i \in 1..Len(podcasts)}
        /\ Cardinality(FeedDirs) = Len(podcasts)

(* C30: when main returns from the loop, by q or by an error of a key      *)
(* handler, the terminal is back in the mode it was in before main         *)
(* initialised it.                                                          *)
C30_TerminalRestored ==
    [][ (pc \in {"draw", "read", "play_assign"} /\ pc' \in {"Ok", "Err", "panic"})
           => terminal' = "cooked" ]_vars

(* The title of the selected podcast, the selected episode and the file of *)
(* the audio cache a play request for it opens.                             *)
PlayedTitle == podcasts[podcast_list_state[1] + 1].title
PlayedEpisode == selected_episode(podcasts, podcast_list_state, episode_list_state)
PlayedFile == with_extension_mp3(PlayedEpisode.title)

(* The audio URLs of the episodes of the collection, as last fetched, of   *)
(* which a play request opens the file the played episode's opens.          *)
UrlsOfPlayedFile ==
    {podcasts[i].episodes[j].audio_url :
        <<i, j>> \in {<<i, j>> \in (1..Len(podcasts)) \X (1..2) :
                        /\ j <= Len(podcasts[i].episodes)
                        /\ podcasts[i].title = PlayedTitle
                        /\ with_extension_mp3(podcasts[i].episodes[j].title) = PlayedFile}}

(* The file the play request opens is absent, or holds the whole audio of  *)
(* an episode of the feeds as last fetched.                                 *)
CacheOfThisFetch ==
    \/ ~audio_path_exists(disk, PlayedTitle, PlayedFile)
    \/ /\ disk[PlayedTitle].audio[PlayedFile].state = "complete"
       /\ disk[PlayedTitle].audio[PlayedFile].src \in UrlsOfPlayedFile

(* C31: a play request that starts a sink, with a cache that holds nothing *)
(* but whole audio of episodes of the feeds as last fetched, plays bytes   *)
(* downloaded from the audio URL of the episode selected.                   *)
C31_PlaysTheEpisode ==
    [][ (PlayRequestStep /\ CacheOfThisFetch /\ pc' = "play_assign")
           => new_sink'[1].source.src = PlayedEpisode.audio_url ]_vars

(* C32: after a draw step the podcast selection is present exactly when    *)
(* the collection has a podcast, and the episode selection is present      *)
(* exactly when a podcast is selected and has an episode.                   *)
C32_SelectionsFollowContent ==
    pc = "read" =>
        /\ IsSome(podcast_list_state) <=> podcasts # <<>>
        /\ IsSome(episode_list_state) <=>
              /\ IsSome(podcast_list_state)
              /\ drawn_episodes(podcasts, podcast_list_state) # <<>>

(* C33: after every call of first, prev and next made on both popup states *)
(* alike, with the same content length, the two scroll offsets are equal   *)
(* and the two scrollbar positions are equal; a call of prev moves neither *)
(* scrollbar position forward; the offsets stay within 0 and 65535.         *)
C33_PopupStatesEquivalent ==
    /\ [](/\ podcast_info_popup.scroll_offset = episode_info_popup.scroll_offset
          /\ podcast_info_popup.scroll_state.position = episode_info_popup.scroll_state.position
          /\ podcast_info_popup.scroll_offset \in 0..U16Max)
    /\ [][ popup_call' = "prev" =>
             /\ podcast_info_popup'.scroll_state.position <= podcast_info_popup.scroll_state.position
             /\ episode_info_popup'.scroll_state.position <= episode_info_popup.scroll_state.position ]_vars
=============================================================================
